---- MODULE Spec2Model ----
\* A model of github.com/tobbstr/xerror: the structured error value (Error),
\* its detail mutators, the constructor factory, the process-wide domain and
\* the two boundary adapters (gRPC unary interceptor, HTTP responder).
EXTENDS Integers, Sequences, FiniteSets, TLC

\* ------------------------------------------------------------------ bounds
\* Longest list handed to one Add... call or to one batch constructor.
MaxLen == 2
\* Number of mutator calls made on one error after its construction.
MaxCalls == 2
\* Longest runtime-state list.
MaxVars == 1

\* --------------------------------------------------------------- constants
LogLevelUnspecified == 0
LogLevelDebug == 1
LogLevelInfo == 2
LogLevelWarn == 3
LogLevelError == 4

LogLevels == {LogLevelUnspecified, LogLevelDebug, LogLevelInfo, LogLevelWarn, LogLevelError}

\* A nil Go value (nil error, nil *Error, nil any).
Nil == [isNil |-> TRUE]

\* errors.New(msg): a plain Go error whose Error() is msg.
errorsNew(msg) == [Error |-> msg]

\* ------------------------------------------------------------ input values
SeqsUpTo(S, n) == UNION {[1..k -> S] : k \in 0..n}

BadRequestViolations ==
    {[Field |-> "age", Description |-> "must be greater than 0"],
     [Field |-> "name", Description |-> "cannot be empty"]}

PreconditionViolations ==
    {[Description |-> "changed since read", Subject |-> "users/123", Typ |-> "ErrVersionMismatch"]}

QuotaViolations ==
    {[Description |-> "daily limit exceeded", Subject |-> "clientip:1"]}

ResourceInfos ==
    {[Description |-> "resource not found", ResourceName |-> "example.v1.User",
      ResourceType |-> "User", Owner |-> ""],
     [Description |-> "resource not found", ResourceName |-> "projects/12345/iam/MyUser",
      ResourceType |-> "iam.v1.User", Owner |-> "user:a"]}

\* Go values of type any stored as metadata values.
AnyStr(str) == [str |-> str, goType |-> "string"]
AnyInt(num) == [goType |-> "int", num |-> num]

\* fmt.Sprintf("%v", v) on the values above.
Sprintf(v) ==
    IF v.goType = "string" THEN v.str
    ELSE CASE v.num = 3 -> "3"
           [] v.num = 7 -> "7"
           [] OTHER -> "?"

\* Metadata maps: a set of key/value pairs with unique keys.
Metadatas ==
    {{},
     {[key |-> "key", val |-> AnyInt(7)], [key |-> "zone", val |-> AnyStr("3")]}}

\* Domains handed to Init, and domains handed to SetErrorInfo.
Domains == {"", "orders.example.com"}
ArgDomains == {"", "pubsub.googleapis.com"}
Reasons == {"", "OUT_OF_STOCK"}
DebugDetails == {"", "a", "b"}
StackEntryLists == {<<>>, <<"line 1", "line 2">>}
\* Cause errors handed to the constructors: nil or an error with a message.
CauseErrors == {Nil, errorsNew("request timed out")}

\* ------------------------------------------------------------- rich status
\* status.New(code, msg)
StatusNew(code, msg) == [code |-> code, message |-> msg, details |-> <<>>]

\* The new status is built from the code alone: the message is dropped.
WithDetailsDroppingMessage(s, detail) ==
    [code |-> s.code, message |-> "", details |-> Append(s.details, detail)]

\* (*Status).WithDetails(detail): a new status with the detail appended.
WithDetails(s, detail) == [s EXCEPT !.details = Append(@, detail)]

\* (*Status).Details(): every stored payload decoded into a fresh message.
Details(s) == s.details

\* Text that is not valid UTF-8, which no proto3 string field can carry.
InvalidText == "<invalid UTF-8>"

ValidText(str) == str # InvalidText

\* anypb.New(detail) succeeds: every string of the payload can be marshalled.
Marshals(detail) ==
    CASE detail.kind = "BadRequest" ->
            \A i \in 1..Len(detail.FieldViolations) :
                /\ ValidText(detail.FieldViolations[i].Field)
                /\ ValidText(detail.FieldViolations[i].Description)
      [] detail.kind = "PreconditionFailure" ->
            \A i \in 1..Len(detail.Violations) :
                /\ ValidText(detail.Violations[i].Description)
                /\ ValidText(detail.Violations[i].Subject)
                /\ ValidText(detail.Violations[i].Type)
      [] detail.kind = "QuotaFailure" ->
            \A i \in 1..Len(detail.Violations) :
                /\ ValidText(detail.Violations[i].Subject)
                /\ ValidText(detail.Violations[i].Description)
      [] detail.kind = "ErrorInfo" ->
            /\ ValidText(detail.Domain)
            /\ ValidText(detail.Reason)
            /\ \A kv \in detail.Metadata : ValidText(kv.key) /\ ValidText(kv.val)
      [] detail.kind = "ResourceInfo" ->
            /\ ValidText(detail.Description)
            /\ ValidText(detail.ResourceName)
            /\ ValidText(detail.ResourceType)
            /\ ValidText(detail.Owner)
      [] detail.kind = "DebugInfo" ->
            /\ ValidText(detail.Detail)
            /\ \A i \in 1..Len(detail.StackEntries) : ValidText(detail.StackEntries[i])

\* (*Status).WithDetails(detail) returns an error and no status: the status
\* has code OK, or the payload cannot be marshalled.
WithDetailsFails(s, detail) == s.code = "OK" \/ ~Marshals(detail)

\* var ErrFailedToAddErrorDetails = errors.New("failed to add error details")
ErrFailedToAddErrorDetails == "failed to add error details"

\* panic(fmt.Errorf("%v: %w", err, ErrFailedToAddErrorDetails)) inside a
\* method of e: the panic value, and e as the panic leaves it.
PanicFailedToAddErrorDetails(e) == [panic |-> [wraps |-> ErrFailedToAddErrorDetails], xerr |-> e]

IsPanic(result) == "panic" \in DOMAIN result

\* index of the first detail of the given kind, 0 for errNotFound
errNotFound == 0

FindKind(s, kind) ==
    IF \E i \in 1..Len(Details(s)) : Details(s)[i].kind = kind
    THEN CHOOSE i \in 1..Len(Details(s)) :
            /\ Details(s)[i].kind = kind
            /\ \A j \in 1..(i - 1) : Details(s)[j].kind # kind
    ELSE errNotFound

findBadRequest(e) == FindKind(e.status, "BadRequest")
findDebugInfo(e) == FindKind(e.status, "DebugInfo")
findPreconditionFailure(e) == FindKind(e.status, "PreconditionFailure")
findErrorInfo(e) == FindKind(e.status, "ErrorInfo")
findQuotaFailure(e) == FindKind(e.status, "QuotaFailure")

\* The find... methods hand out a message decoded by Details(); assigning to
\* its fields changes that decoded message only.  WriteBack is what becomes of
\* the status after such an assignment: the stored payload is not touched.
\* The stored payload is replaced by the assigned-to message.
WriteThrough(s, i, updated) == [s EXCEPT !.details[i] = updated]

WriteBack(s, i, updated) == s

\* ---------------------------------------------------- detail payloads
BadRequest(violations) ==
    [kind |-> "BadRequest",
     FieldViolations |-> [i \in 1..Len(violations) |->
        [Field |-> violations[i].Field, Description |-> violations[i].Description]]]

PreconditionFailure(violations) ==
    [kind |-> "PreconditionFailure",
     Violations |-> [i \in 1..Len(violations) |->
        [Description |-> violations[i].Description, Subject |-> violations[i].Subject,
         Type |-> violations[i].Typ]]]

QuotaFailure(violations) ==
    [kind |-> "QuotaFailure",
     Violations |-> [i \in 1..Len(violations) |->
        [Description |-> violations[i].Description, Subject |-> violations[i].Subject]]]

ErrorInfo(domain, reason, metadatapb) ==
    [kind |-> "ErrorInfo", Domain |-> domain, Reason |-> reason, Metadata |-> metadatapb]

ResourceInfoDetail(info) ==
    [Description |-> info.Description, ResourceName |-> info.ResourceName,
     ResourceType |-> info.ResourceType, Owner |-> info.Owner,
     kind |-> "ResourceInfo"]

DebugInfo(detail, stackEntries) ==
    [kind |-> "DebugInfo", Detail |-> detail, StackEntries |-> stackEntries]

\* ------------------------------------------------------------ Error value
\* &Error{status: ..., logLevel: ..., detailsHidden: ...}
NewError(status, logLevel, detailsHidden) ==
    [status |-> status, logLevel |-> logLevel, detailsHidden |-> detailsHidden,
     runtimeState |-> <<>>]

\* The error of WithDetails is ignored: the call returns, e as it was.
AddBadRequestViolationsIgnoringFailure(e, violations) ==
    LET violationspb == BadRequest(violations).FieldViolations
        existing == findBadRequest(e)
    IN  IF existing = errNotFound
        THEN IF WithDetailsFails(e.status, BadRequest(violations))
             THEN e
             ELSE [e EXCEPT !.status = WithDetails(@, BadRequest(violations))]
        ELSE [e EXCEPT !.status = WriteBack(@, existing,
                [Details(@)[existing] EXCEPT !.FieldViolations = @ \o violationspb])]

AddBadRequestViolations(e, violations) ==
    LET violationspb == BadRequest(violations).FieldViolations
        existing == findBadRequest(e)
    IN  IF existing = errNotFound
        THEN IF WithDetailsFails(e.status, BadRequest(violations))
             THEN PanicFailedToAddErrorDetails(e)
             ELSE [e EXCEPT !.status = WithDetails(@, BadRequest(violations))]
        ELSE [e EXCEPT !.status = WriteBack(@, existing,
                [Details(@)[existing] EXCEPT !.FieldViolations = @ \o violationspb])]

AddPreconditionViolations(e, violations) ==
    LET violationspb == PreconditionFailure(violations).Violations
        existing == findPreconditionFailure(e)
    IN  IF existing = errNotFound
        THEN IF WithDetailsFails(e.status, PreconditionFailure(violations))
             THEN PanicFailedToAddErrorDetails(e)
             ELSE [e EXCEPT !.status = WithDetails(@, PreconditionFailure(violations))]
        ELSE [e EXCEPT !.status = WriteBack(@, existing,
                [Details(@)[existing] EXCEPT !.Violations = @ \o violationspb])]

\* The reason is not looked at: an empty one is stored like any other.
SetErrorInfoWithAnyReason(e, makerDomain, domainArg, reason, metadata) ==
    LET domain == IF domainArg = "" THEN makerDomain ELSE domainArg
        metadatapb == {[key |-> kv.key, val |-> Sprintf(kv.val)] : kv \in metadata}
        existing == findErrorInfo(e)
    IN  IF existing = errNotFound
        THEN [e EXCEPT !.status = WithDetails(@, ErrorInfo(domain, reason, metadatapb))]
        ELSE [e EXCEPT !.status = WriteBack(@, existing,
                [Details(@)[existing] EXCEPT !.Domain = domain, !.Reason = reason,
                                             !.Metadata = metadatapb])]

SetErrorInfo(e, makerDomain, domainArg, reason, metadata) ==
    IF reason = "" THEN e
    ELSE
    LET domain == IF domainArg = "" THEN makerDomain ELSE domainArg
        metadatapb == {[key |-> kv.key, val |-> Sprintf(kv.val)] : kv \in metadata}
        existing == findErrorInfo(e)
    IN  IF existing = errNotFound
        THEN IF WithDetailsFails(e.status, ErrorInfo(domain, reason, metadatapb))
             THEN PanicFailedToAddErrorDetails(e)
             ELSE [e EXCEPT !.status = WithDetails(@, ErrorInfo(domain, reason, metadatapb))]
        ELSE [e EXCEPT !.status = WriteBack(@, existing,
                [Details(@)[existing] EXCEPT !.Domain = domain, !.Reason = reason,
                                             !.Metadata = metadatapb])]

\* The loop stops one info short.
RECURSIVE AddResourceInfosButLast(_, _)
AddResourceInfosButLast(e, infos) ==
    IF Len(infos) <= 1 THEN e
    ELSE AddResourceInfosButLast([e EXCEPT !.status = WithDetails(@, ResourceInfoDetail(Head(infos)))],
                                 Tail(infos))

RECURSIVE AddResourceInfos(_, _)
AddResourceInfos(e, infos) ==
    IF infos = <<>> THEN e
    ELSE IF WithDetailsFails(e.status, ResourceInfoDetail(Head(infos)))
         THEN PanicFailedToAddErrorDetails(e)
         ELSE AddResourceInfos([e EXCEPT !.status = WithDetails(@, ResourceInfoDetail(Head(infos)))],
                               Tail(infos))

\* The error is rebuilt around the new status: the hidden flag is lost.
SetDebugInfoResettingFlag(e, detail, stackEntries) ==
    IF detail = "" THEN e
    ELSE
    LET existing == findDebugInfo(e)
    IN  IF existing = errNotFound
        THEN [e EXCEPT !.status = WithDetails(@, DebugInfo(detail, stackEntries)),
                       !.detailsHidden = FALSE]
        ELSE e

SetDebugInfo(e, detail, stackEntries) ==
    IF detail = "" THEN e
    ELSE
    LET existing == findDebugInfo(e)
    IN  IF existing = errNotFound
        THEN IF WithDetailsFails(e.status, DebugInfo(detail, stackEntries))
             THEN PanicFailedToAddErrorDetails(e)
             ELSE [e EXCEPT !.status = WithDetails(@, DebugInfo(detail, stackEntries))]
        ELSE [e EXCEPT !.status = WriteBack(@, existing,
                [Details(@)[existing] EXCEPT !.Detail = detail, !.StackEntries = stackEntries])]

AddQuotaViolations(e, violations) ==
    LET violationspb == QuotaFailure(violations).Violations
        existing == findQuotaFailure(e)
    IN  IF existing = errNotFound
        THEN IF WithDetailsFails(e.status, QuotaFailure(violations))
             THEN PanicFailedToAddErrorDetails(e)
             ELSE [e EXCEPT !.status = WithDetails(@, QuotaFailure(violations))]
        ELSE [e EXCEPT !.status = WriteBack(@, existing,
                [Details(@)[existing] EXCEPT !.Violations = @ \o violationspb])]

\* ------------------------------------------------------ constructor factory
\* Each constructor yields the new *Error, Nil (a nil *Error), or Panic when
\* it dereferences a nil cause error (opts.Error.Error()).
Panic == [panic |-> "nil pointer dereference"]

msgInvalidArgument == "one or more request arguments were invalid"
msgPreconditionFailure == "one or more request preconditions failed"
msgOutOfRange == "one or more request arguments were out of range"
msgNotFound == "requested resource not found"
msgBatchNotFound == "requested resources not found"
msgAlreadyExists == "resource already exists"
msgAlreadyExistsBatch == "resources already exist"
msgCanceled == "request canceled by the client"
msgNotImplemented == "not implemented"

\* The options' severity is taken as it is, unspecified included.
newBadRequestWithoutDefault(msg, opts) ==
    LET e == NewError(StatusNew("InvalidArgument", msg), opts.LogLevel, FALSE)
    IN  AddBadRequestViolations(e, <<opts.Violation>>)

newBadRequest(msg, opts) ==
    LET logLevel == IF opts.LogLevel = LogLevelUnspecified THEN LogLevelInfo ELSE opts.LogLevel
        e == NewError(StatusNew("InvalidArgument", msg), logLevel, FALSE)
    IN  AddBadRequestViolations(e, <<opts.Violation>>)

newBatchBadRequest(msg, opts) ==
    LET logLevel == IF opts.LogLevel = LogLevelUnspecified THEN LogLevelInfo ELSE opts.LogLevel
        e == NewError(StatusNew("InvalidArgument", msg), logLevel, FALSE)
    IN  AddBadRequestViolations(e, opts.Violations)

newErrorInfoError(makerDomain, code, opts) ==
    IF opts.Error = Nil THEN Panic
    ELSE LET e == NewError(StatusNew(code, opts.Error.Error), opts.LogLevel, FALSE)
         IN  SetErrorInfo(e, makerDomain, makerDomain, opts.Reason, opts.Metadata)

\* A cause without a message is treated like no cause.
newErrorWithHiddenDetailsOfMessage(code, opts) ==
    IF opts.Error = Nil \/ opts.Error.Error = "" THEN Nil
    ELSE LET logLevel == IF opts.LogLevel = LogLevelUnspecified THEN LogLevelError
                         ELSE opts.LogLevel
         IN  NewError(StatusNew(code, opts.Error.Error), logLevel, TRUE)

\* The flag is left at its zero value.
newErrorWithVisibleDetails(code, opts) ==
    IF opts.Error = Nil THEN Nil
    ELSE LET logLevel == IF opts.LogLevel = LogLevelUnspecified THEN LogLevelError
                         ELSE opts.LogLevel
         IN  NewError(StatusNew(code, opts.Error.Error), logLevel, FALSE)

newErrorWithHiddenDetails(code, opts) ==
    IF opts.Error = Nil THEN Nil
    ELSE LET logLevel == IF opts.LogLevel = LogLevelUnspecified THEN LogLevelError
                         ELSE opts.LogLevel
         IN  NewError(StatusNew(code, opts.Error.Error), logLevel, TRUE)

newInvalidArgument(opts) == newBadRequest(msgInvalidArgument, opts)

newInvalidArgumentErrors(opts) == newBatchBadRequest(msgInvalidArgument, opts)

newPreconditionFailure(opts) ==
    AddPreconditionViolations(
        NewError(StatusNew("FailedPrecondition", msgPreconditionFailure), LogLevelUnspecified, FALSE),
        <<opts.Violation>>)

newPreconditionFailures(opts) ==
    AddPreconditionViolations(
        NewError(StatusNew("FailedPrecondition", msgPreconditionFailure), LogLevelUnspecified, FALSE),
        opts.Violations)

newOutOfRangeError(opts) == newBadRequest(msgOutOfRange, opts)

newOutOfRangeErrors(opts) == newBatchBadRequest(msgOutOfRange, opts)

newUnauthenticatedError(makerDomain, opts) == newErrorInfoError(makerDomain, "Unauthenticated", opts)

newPermissionDeniedError(makerDomain, opts) == newErrorInfoError(makerDomain, "PermissionDenied", opts)

newNotFound(opts) ==
    AddResourceInfos(NewError(StatusNew("NotFound", msgNotFound), opts.LogLevel, FALSE),
                     <<opts.ResourceInfo>>)

newBatchNotFound(opts) ==
    AddResourceInfos(NewError(StatusNew("NotFound", msgBatchNotFound), opts.LogLevel, FALSE),
                     opts.ResourceInfos)

newAborted(makerDomain, opts) == newErrorInfoError(makerDomain, "Aborted", opts)

newAlreadyExists(opts) ==
    AddResourceInfos(NewError(StatusNew("AlreadyExists", msgAlreadyExists), opts.LogLevel, FALSE),
                     <<opts.ResourceInfo>>)

newAlreadyExistsBatch(opts) ==
    AddResourceInfos(NewError(StatusNew("AlreadyExists", msgAlreadyExistsBatch), opts.LogLevel, FALSE),
                     opts.ResourceInfos)

newQuotaFailure(opts) ==
    IF opts.Error = Nil THEN Panic
    ELSE AddQuotaViolations(NewError(StatusNew("ResourceExhausted", opts.Error.Error), opts.LogLevel, FALSE),
                            <<opts.QuotaViolation>>)

newQuotaFailureBatch(opts) ==
    IF opts.Error = Nil THEN Panic
    ELSE AddQuotaViolations(NewError(StatusNew("ResourceExhausted", opts.Error.Error), opts.LogLevel, FALSE),
                            opts.QuotaViolations)

newResourceExhausted(makerDomain, opts) == newErrorInfoError(makerDomain, "ResourceExhausted", opts)

newCanceledError(logLevel) == NewError(StatusNew("Canceled", msgCanceled), logLevel, FALSE)

newServerDataLoss(opts) == newErrorWithHiddenDetails("DataLoss", opts)

newRequestDataLoss(makerDomain, opts) == newErrorInfoError(makerDomain, "DataLoss", opts)

newUnknown(opts) == newErrorWithHiddenDetails("Unknown", opts)

newInternalError(opts) == newErrorWithHiddenDetails("Internal", opts)

newNotImplemented(logLevel) == NewError(StatusNew("Unimplemented", msgNotImplemented), logLevel, FALSE)

newUnavailable(opts) == newErrorWithHiddenDetails("Unavailable", opts)

newDeadlineExceeded(opts) == newErrorWithHiddenDetails("DeadlineExceeded", opts)

\* ------------------------------------------------- codes of the rich status
Codes == {"OK", "Canceled", "Unknown", "InvalidArgument",
          "DeadlineExceeded", "NotFound", "AlreadyExists", "PermissionDenied",
          "ResourceExhausted", "FailedPrecondition", "Aborted", "OutOfRange",
          "Unimplemented", "Internal", "Unavailable", "DataLoss",
          "Unauthenticated"}

\* int(code)
CodeInt(code) ==
    CASE code = "OK" -> 0
      [] code = "Canceled" -> 1
      [] code = "Unknown" -> 2
      [] code = "InvalidArgument" -> 3
      [] code = "DeadlineExceeded" -> 4
      [] code = "NotFound" -> 5
      [] code = "AlreadyExists" -> 6
      [] code = "PermissionDenied" -> 7
      [] code = "ResourceExhausted" -> 8
      [] code = "FailedPrecondition" -> 9
      [] code = "Aborted" -> 10
      [] code = "OutOfRange" -> 11
      [] code = "Unimplemented" -> 12
      [] code = "Internal" -> 13
      [] code = "Unavailable" -> 14
      [] code = "DataLoss" -> 15
      [] code = "Unauthenticated" -> 16

\* code.String() as a sequence of characters
CodeString(code) ==
    CASE code = "OK" -> <<"O", "K">>
      [] code = "Canceled" -> <<"C", "a", "n", "c", "e", "l", "e", "d">>
      [] code = "Unknown" -> <<"U", "n", "k", "n", "o", "w", "n">>
      [] code = "InvalidArgument" -> <<"I", "n", "v", "a", "l", "i", "d", "A", "r", "g", "u", "m", "e", "n", "t">>
      [] code = "DeadlineExceeded" -> <<"D", "e", "a", "d", "l", "i", "n", "e", "E", "x", "c", "e", "e", "d", "e", "d">>
      [] code = "NotFound" -> <<"N", "o", "t", "F", "o", "u", "n", "d">>
      [] code = "AlreadyExists" -> <<"A", "l", "r", "e", "a", "d", "y", "E", "x", "i", "s", "t", "s">>
      [] code = "PermissionDenied" -> <<"P", "e", "r", "m", "i", "s", "s", "i", "o", "n", "D", "e", "n", "i", "e", "d">>
      [] code = "ResourceExhausted" -> <<"R", "e", "s", "o", "u", "r", "c", "e", "E", "x", "h", "a", "u", "s", "t", "e", "d">>
      [] code = "FailedPrecondition" -> <<"F", "a", "i", "l", "e", "d", "P", "r", "e", "c", "o", "n", "d", "i", "t", "i", "o", "n">>
      [] code = "Aborted" -> <<"A", "b", "o", "r", "t", "e", "d">>
      [] code = "OutOfRange" -> <<"O", "u", "t", "O", "f", "R", "a", "n", "g", "e">>
      [] code = "Unimplemented" -> <<"U", "n", "i", "m", "p", "l", "e", "m", "e", "n", "t", "e", "d">>
      [] code = "Internal" -> <<"I", "n", "t", "e", "r", "n", "a", "l">>
      [] code = "Unavailable" -> <<"U", "n", "a", "v", "a", "i", "l", "a", "b", "l", "e">>
      [] code = "DataLoss" -> <<"D", "a", "t", "a", "L", "o", "s", "s">>
      [] code = "Unauthenticated" -> <<"U", "n", "a", "u", "t", "h", "e", "n", "t", "i", "c", "a", "t", "e", "d">>

\* runtime.HTTPStatusFromCode(code)
HTTPStatusFromCode(code) ==
    CASE code = "OK" -> 200
      [] code = "Canceled" -> 499
      [] code = "Unknown" -> 500
      [] code = "InvalidArgument" -> 400
      [] code = "DeadlineExceeded" -> 504
      [] code = "NotFound" -> 404
      [] code = "AlreadyExists" -> 409
      [] code = "PermissionDenied" -> 403
      [] code = "ResourceExhausted" -> 429
      [] code = "FailedPrecondition" -> 400
      [] code = "Aborted" -> 409
      [] code = "OutOfRange" -> 400
      [] code = "Unimplemented" -> 501
      [] code = "Internal" -> 500
      [] code = "Unavailable" -> 503
      [] code = "DataLoss" -> 500
      [] code = "Unauthenticated" -> 401
      [] OTHER -> 500

\* ------------------------------------------------------ upperSnakeCaseFrom
lowerLetters == <<"a", "b", "c", "d", "e", "f", "g", "h", "i", "j", "k", "l", "m", "n", "o", "p", "q", "r", "s", "t", "u", "v", "w", "x", "y", "z">>
upperLetters == <<"A", "B", "C", "D", "E", "F", "G", "H", "I", "J", "K", "L", "M", "N", "O", "P", "Q", "R", "S", "T", "U", "V", "W", "X", "Y", "Z">>

IsUpper(r) == \E i \in 1..Len(upperLetters) : upperLetters[i] = r

ToUpper(r) ==
    IF \E i \in 1..Len(lowerLetters) : lowerLetters[i] = r
    THEN upperLetters[CHOOSE i \in 1..Len(lowerLetters) : lowerLetters[i] = r]
    ELSE r

RECURSIVE upperSnakeCaseLoop(_, _, _)
upperSnakeCaseLoop(s, i, result) ==
    IF i > Len(s) THEN result
    ELSE LET r == s[i]
             withUnderscore == IF IsUpper(r) /\ i > 1 THEN Append(result, "_") ELSE result
         IN  upperSnakeCaseLoop(s, i + 1, Append(withUnderscore, ToUpper(r)))

\* Every character is upper-cased and nothing is inserted.
upperSnakeCaseFromWithoutUnderscores(s) == [i \in 1..Len(s) |-> ToUpper(s[i])]

\* func upperSnakeCaseFrom(s string) string
upperSnakeCaseFrom(s) == upperSnakeCaseLoop(s, 1, <<>>)

\* ------------------------------------------- flags, severity, runtime state
HideDetails(e) == [e EXCEPT !.detailsHidden = TRUE]

IsDetailsHidden(e) == e.detailsHidden

SetLogLevel(e, level) == [e EXCEPT !.logLevel = level]

\* An entry of the same name is replaced where it stands.
AddVarReplacingSameName(e, name, value) ==
    IF name = "" \/ value = Nil THEN e
    ELSE IF \E i \in 1..Len(e.runtimeState) : e.runtimeState[i].Name = name
         THEN [e EXCEPT !.runtimeState =
                  [i \in 1..Len(@) |-> IF @[i].Name = name
                                       THEN [Name |-> name, Value |-> value] ELSE @[i]]]
         ELSE [e EXCEPT !.runtimeState = Append(@, [Name |-> name, Value |-> value])]

AddVar(e, name, value) ==
    IF name = "" \/ value = Nil THEN e
    ELSE [e EXCEPT !.runtimeState = Append(@, [Name |-> name, Value |-> value])]

\* AddVars(vars...): AddVar for each entry, in order.
RECURSIVE AddVars(_, _)
AddVars(e, entries) ==
    IF entries = <<>> THEN e
    ELSE AddVars(AddVar(e, Head(entries).Name, Head(entries).Value), Tail(entries))

IsSensitive(detail) == detail.kind \in {"ErrorInfo", "DebugInfo"}

\* Only the ErrorInfo groups are removed.
RemoveErrorInfoOnly(e) ==
    [e EXCEPT !.status.details = SelectSeq(@, LAMBDA d : d.kind # "ErrorInfo")]

RemoveSensitiveDetails(e) ==
    [e EXCEPT !.status.details = SelectSeq(@, LAMBDA d : ~IsSensitive(d))]

Status(e) == e.status

StatusProto(e) == e.status

StatusCode(e) == e.status.code

StatusMessage(e) == e.status.message

\* SetStatus replaces the status and leaves the rest of the error alone.
SetStatus(e, s) == [e EXCEPT !.status = s]

\* ----------------------------------------------------------------- retries
\* -------------------------------------------------------- domain errors
\* Only the reason is compared.
IsDomainErrorByReason(e, domain, reason) ==
    LET existing == findErrorInfo(e)
    IN  /\ existing # errNotFound
        /\ Details(e.status)[existing].Reason = reason

IsDomainError(e, domain, reason) ==
    LET existing == findErrorInfo(e)
    IN  /\ existing # errNotFound
        /\ Details(e.status)[existing].Domain = domain
        /\ Details(e.status)[existing].Reason = reason

IsDirectlyRetryable(e) == StatusCode(e) = "Unavailable"

\* UNAVAILABLE counts as retryable at a higher level too.
IsRetryableAtHigherLevelOrUnavailable(e) ==
    StatusCode(e) \in {"ResourceExhausted", "Aborted", "Unavailable"}

IsRetryableAtHigherLevel(e) == StatusCode(e) \in {"ResourceExhausted", "Aborted"}

\* ------------------------------------------------------- gRPC interceptor
\* What the handler returns as its error: nil, a plain error, or the xerror
\* under study (theXError stands for the pointer to it).
plainError == [Error |-> "some error", type |-> "plain"]
theXError == [type |-> "xerror"]
HandlerErrors == {Nil, plainError, theXError}

\* (*Status).Err(): the error that carries the status across the wire.
StatusErr(s) == [code |-> s.code, message |-> s.message, details |-> s.details, type |-> "status"]

\* The sensitive details are removed whatever the hidden flag says.
UnaryXErrorInterceptorAlwaysRemoves(xerr, resp, handlerErr) ==
    IF handlerErr # Nil
    THEN IF handlerErr # theXError
         THEN [xerr |-> xerr, resp |-> resp, err |-> handlerErr]
         ELSE LET stripped == RemoveSensitiveDetails(xerr)
              IN  [xerr |-> stripped, resp |-> resp, err |-> StatusErr(Status(stripped))]
    ELSE [xerr |-> xerr, resp |-> resp, err |-> handlerErr]

\* Result: the returned (resp, err) and the xerror as the call leaves it.
UnaryXErrorInterceptor(xerr, resp, handlerErr) ==
    IF handlerErr # Nil
    THEN IF handlerErr # theXError
         THEN [xerr |-> xerr, resp |-> resp, err |-> handlerErr]
         ELSE LET stripped == IF IsDetailsHidden(xerr) THEN RemoveSensitiveDetails(xerr) ELSE xerr
              IN  [xerr |-> stripped, resp |-> resp, err |-> StatusErr(Status(stripped))]
    ELSE [xerr |-> xerr, resp |-> resp, err |-> handlerErr]

\* Every status becomes a detail-less status.
ConvertWithoutDetails(inbound) ==
    IF inbound.type = "status"
    THEN StatusNew(inbound.code, inbound.message)
    ELSE StatusNew("Unknown", inbound.Error)

\* status.Convert(err) for a non-nil err: the status the error carries, or
\* status.New(codes.Unknown, err.Error()) when it carries none.
Convert(inbound) ==
    IF inbound.type = "status"
    THEN [code |-> inbound.code, message |-> inbound.message, details |-> inbound.details]
    ELSE StatusNew("Unknown", inbound.Error)

\* new(xerror.Error): the zero value.
ZeroError == NewError(StatusNew("OK", ""), LogLevelUnspecified, FALSE)

\* The carried status is ignored: every inbound error becomes UNKNOWN.
ErrorFromAlwaysUnknown(inbound) ==
    IF inbound = Nil
    THEN Nil
    ELSE SetStatus(ZeroError, StatusNew("Unknown", "unknown error"))

ErrorFrom(inbound) ==
    IF inbound = Nil
    THEN Nil
    ELSE SetStatus(ZeroError, Convert(inbound))

\* ----------------------------------------------------------- HTTP responder
TypeURL(kind) ==
    CASE kind = "BadRequest" -> "type.googleapis.com/google.rpc.BadRequest"
      [] kind = "PreconditionFailure" -> "type.googleapis.com/google.rpc.PreconditionFailure"
      [] kind = "QuotaFailure" -> "type.googleapis.com/google.rpc.QuotaFailure"
      [] kind = "ErrorInfo" -> "type.googleapis.com/google.rpc.ErrorInfo"
      [] kind = "ResourceInfo" -> "type.googleapis.com/google.rpc.ResourceInfo"
      [] kind = "DebugInfo" -> "type.googleapis.com/google.rpc.DebugInfo"

\* protojson.Marshal(detail): the payload as a JSON object with its "@type".
protojsonMarshal(d) ==
    CASE d.kind = "BadRequest" ->
            [type |-> TypeURL(d.kind),
             fieldViolations |-> [i \in 1..Len(d.FieldViolations) |->
                [field |-> d.FieldViolations[i].Field,
                 description |-> d.FieldViolations[i].Description]]]
      [] d.kind = "PreconditionFailure" ->
            [violations |-> [i \in 1..Len(d.Violations) |->
                [type |-> d.Violations[i].Type, description |-> d.Violations[i].Description,
                 subject |-> d.Violations[i].Subject]],
             type |-> TypeURL(d.kind)]
      [] d.kind = "QuotaFailure" ->
            [violations |-> [i \in 1..Len(d.Violations) |->
                [description |-> d.Violations[i].Description,
                 subject |-> d.Violations[i].Subject]],
             type |-> TypeURL(d.kind)]
      [] d.kind = "ErrorInfo" ->
            [domain |-> d.Domain, reason |-> d.Reason, metadata |-> d.Metadata,
             type |-> TypeURL(d.kind)]
      [] d.kind = "ResourceInfo" ->
            [type |-> TypeURL(d.kind), description |-> d.Description,
             resourceType |-> d.ResourceType, resourceName |-> d.ResourceName,
             owner |-> d.Owner]
      [] d.kind = "DebugInfo" ->
            [detail |-> d.Detail, stackEntries |-> d.StackEntries, type |-> TypeURL(d.kind)]

\* The body is written without a call of WriteHeader: net/http answers 200.
writeErrorWithoutHeader(st, code, message) ==
    LET rawJSONDetails == [i \in 1..Len(st.details) |-> protojsonMarshal(st.details[i])]
        head == [code |-> CodeInt(code), message |-> message,
                 status |-> upperSnakeCaseFrom(CodeString(code))]
        errorDetails == IF Len(rawJSONDetails) = 0 THEN head
                        ELSE [code |-> head.code, message |-> head.message,
                              details |-> rawJSONDetails, status |-> head.status]
    IN  [code |-> 200, body |-> [error |-> errorDetails]]

\* The response: status line and body.  Details carries `json:",omitempty"`.
writeError(st, code, message) ==
    LET rawJSONDetails == [i \in 1..Len(st.details) |-> protojsonMarshal(st.details[i])]
        head == [code |-> CodeInt(code), message |-> message,
                 status |-> upperSnakeCaseFrom(CodeString(code))]
        errorDetails == IF Len(rawJSONDetails) = 0 THEN head
                        ELSE [code |-> head.code, message |-> head.message,
                              details |-> rawJSONDetails, status |-> head.status]
    IN  [code |-> HTTPStatusFromCode(code), body |-> [error |-> errorDetails]]

\* The hidden flag is not looked at.
RespondFailedUnredacted(xerr, e) ==
    IF e # theXError
    THEN [xerr |-> xerr, resp |-> [code |-> 500, body |-> [raw |-> "non-xerror received"]]]
    ELSE [xerr |-> xerr,
          resp |-> writeError(StatusProto(xerr), StatusCode(xerr), StatusMessage(xerr))]

\* The runtime state is written next to the error object.
RespondFailedWithState(xerr, e) ==
    IF e # theXError
    THEN [xerr |-> xerr, resp |-> [code |-> 500, body |-> [raw |-> "non-xerror received"]]]
    ELSE LET stripped == IF IsDetailsHidden(xerr) THEN RemoveSensitiveDetails(xerr) ELSE xerr
             written == writeError(StatusProto(stripped), StatusCode(stripped),
                                   StatusMessage(stripped))
         IN  [xerr |-> stripped,
              resp |-> [code |-> written.code,
                        body |-> [error |-> written.body.error,
                                  state |-> stripped.runtimeState]]]

\* Any other error is answered as a structured UNKNOWN error.
RespondFailedAsUnknown(xerr, e) ==
    IF e # theXError
    THEN [xerr |-> xerr,
          resp |-> [code |-> 500,
                    body |-> writeError(StatusNew("Unknown", e.Error), "Unknown", e.Error).body]]
    ELSE LET stripped == IF IsDetailsHidden(xerr) THEN RemoveSensitiveDetails(xerr) ELSE xerr
         IN  [xerr |-> stripped,
              resp |-> writeError(StatusProto(stripped), StatusCode(stripped),
                                  StatusMessage(stripped))]

\* Result: the response written and the xerror as the call leaves it.
RespondFailed(xerr, e) ==
    IF e # theXError
    THEN [xerr |-> xerr, resp |-> [code |-> 500, body |-> [raw |-> "non-xerror received"]]]
    ELSE LET stripped == IF IsDetailsHidden(xerr) THEN RemoveSensitiveDetails(xerr) ELSE xerr
         IN  [xerr |-> stripped,
              resp |-> writeError(StatusProto(stripped), StatusCode(stripped),
                                  StatusMessage(stripped))]

\* ------------------------------------------------------------------- state
VARIABLES
    domain,     \* maker.domain, the process-wide default domain
    err,        \* the *Error under study, Nil before it is constructed
    nCalls,     \* method calls made on err since its construction
    lastOp,     \* the operation that ran last: its name and its arguments
    out,        \* what the last operation handed to the outside world
    panicked,   \* the program halted with a panic
    tasks,      \* the goroutines sharing err: each one's position and locals
    mutex       \* the callers' sync.Mutex around err: 0 free, else its holder

vars == <<domain, err, nCalls, lastOp, out, panicked, tasks, mutex>>

\* The goroutines that share one *Error.
Tasks == {1, 2}

\* A goroutine that has not called a method of the error.
IdleTask == [status |-> Nil, violations |-> <<>>, existing |-> errNotFound,
             pc |-> "idle", locks |-> FALSE]

ViolationLists(S) == SeqsUpTo(S, MaxLen)

BadRequestOptions ==
    [LogLevel : LogLevels, Violation : BadRequestViolations]
BadRequestBatchOptions ==
    [Violations : ViolationLists(BadRequestViolations), LogLevel : LogLevels]
PreconditionFailureOptions ==
    [LogLevel : LogLevels, Violation : PreconditionViolations]
PreconditionFailureBatchOptions ==
    [Violations : ViolationLists(PreconditionViolations), LogLevel : LogLevels]
ErrorInfoOptions ==
    [Error : CauseErrors, Reason : Reasons, Metadata : Metadatas, LogLevel : LogLevels]
NotFoundOptions ==
    [LogLevel : LogLevels, ResourceInfo : ResourceInfos]
NotFoundBatchOptions ==
    [ResourceInfos : ViolationLists(ResourceInfos), LogLevel : LogLevels]
QuotaFailureOptions ==
    [Error : CauseErrors, LogLevel : LogLevels, QuotaViolation : QuotaViolations]
QuotaFailureBatchOptions ==
    [Error : CauseErrors, QuotaViolations : ViolationLists(QuotaViolations), LogLevel : LogLevels]
\* errors.New(""): a cause that is not nil and has an empty message.
SimpleCauses == CauseErrors \cup {errorsNew("")}

SimpleOptions ==
    [Error : SimpleCauses, LogLevel : LogLevels]

Init ==
    /\ domain = ""
    /\ err = Nil
    /\ nCalls = 0
    /\ lastOp = [name |-> "none", args |-> <<>>]
    /\ out = Nil
    /\ panicked = FALSE
    /\ tasks = [t \in Tasks |-> IdleTask]
    /\ mutex = 0

\* The domain is assigned only while it is still empty.
InitDomainOnce(d) ==
    /\ ~panicked
    /\ domain' = IF domain = "" THEN d ELSE domain
    /\ lastOp' = [name |-> "Init", args |-> <<d>>]
    /\ out' = Nil
    /\ UNCHANGED <<err, nCalls, panicked, tasks, mutex>>

\* func Init(domain string)
InitDomain(d) ==
    /\ ~panicked
    /\ domain' = d
    /\ lastOp' = [name |-> "Init", args |-> <<d>>]
    /\ out' = Nil
    /\ UNCHANGED <<err, nCalls, panicked, tasks, mutex>>

\* A constructor call: its result becomes the error under study.
Construct(op, opts, result) ==
    /\ ~panicked
    /\ err = Nil
    /\ lastOp' = [name |-> op, args |-> <<opts>>]
    /\ nCalls' = 0
    /\ out' = Nil
    /\ IF IsPanic(result)
       THEN panicked' = TRUE /\ err' = Nil
       ELSE panicked' = FALSE /\ err' = result
    /\ UNCHANGED <<domain, tasks, mutex>>

NewInvalidArgument(opts) == Construct("newInvalidArgument", opts, newInvalidArgument(opts))
NewInvalidArgumentErrors(opts) == Construct("newInvalidArgumentErrors", opts, newInvalidArgumentErrors(opts))
NewPreconditionFailure(opts) == Construct("newPreconditionFailure", opts, newPreconditionFailure(opts))
NewPreconditionFailures(opts) == Construct("newPreconditionFailures", opts, newPreconditionFailures(opts))
NewOutOfRangeError(opts) == Construct("newOutOfRangeError", opts, newOutOfRangeError(opts))
NewOutOfRangeErrors(opts) == Construct("newOutOfRangeErrors", opts, newOutOfRangeErrors(opts))
NewUnauthenticatedError(opts) == Construct("newUnauthenticatedError", opts, newUnauthenticatedError(domain, opts))
NewPermissionDeniedError(opts) == Construct("newPermissionDeniedError", opts, newPermissionDeniedError(domain, opts))
NewNotFound(opts) == Construct("newNotFound", opts, newNotFound(opts))
NewBatchNotFound(opts) == Construct("newBatchNotFound", opts, newBatchNotFound(opts))
NewAborted(opts) == Construct("newAborted", opts, newAborted(domain, opts))
NewAlreadyExists(opts) == Construct("newAlreadyExists", opts, newAlreadyExists(opts))
NewAlreadyExistsBatch(opts) == Construct("newAlreadyExistsBatch", opts, newAlreadyExistsBatch(opts))
NewQuotaFailure(opts) == Construct("newQuotaFailure", opts, newQuotaFailure(opts))
NewQuotaFailureBatch(opts) == Construct("newQuotaFailureBatch", opts, newQuotaFailureBatch(opts))
NewResourceExhausted(opts) == Construct("newResourceExhausted", opts, newResourceExhausted(domain, opts))
NewCanceledError(logLevel) == Construct("newCanceledError", logLevel, newCanceledError(logLevel))
NewServerDataLoss(opts) == Construct("newServerDataLoss", opts, newServerDataLoss(opts))
NewRequestDataLoss(opts) == Construct("newRequestDataLoss", opts, newRequestDataLoss(domain, opts))
NewUnknown(opts) == Construct("newUnknown", opts, newUnknown(opts))
NewInternalError(opts) == Construct("newInternalError", opts, newInternalError(opts))
NewNotImplemented(logLevel) == Construct("newNotImplemented", logLevel, newNotImplemented(logLevel))
NewUnavailable(opts) == Construct("newUnavailable", opts, newUnavailable(opts))
NewDeadlineExceeded(opts) == Construct("newDeadlineExceeded", opts, newDeadlineExceeded(opts))

BadRequestConstructors ==
    \/ \E opts \in BadRequestOptions : NewInvalidArgument(opts) \/ NewOutOfRangeError(opts)
    \/ \E opts \in BadRequestBatchOptions : NewInvalidArgumentErrors(opts) \/ NewOutOfRangeErrors(opts)

PreconditionConstructors ==
    \/ \E opts \in PreconditionFailureOptions : NewPreconditionFailure(opts)
    \/ \E opts \in PreconditionFailureBatchOptions : NewPreconditionFailures(opts)

ErrorInfoConstructors ==
    \E opts \in ErrorInfoOptions :
        \/ NewUnauthenticatedError(opts)
        \/ NewPermissionDeniedError(opts)
        \/ NewAborted(opts)
        \/ NewResourceExhausted(opts)
        \/ NewRequestDataLoss(opts)

ResourceInfoConstructors ==
    \/ \E opts \in NotFoundOptions : NewNotFound(opts) \/ NewAlreadyExists(opts)
    \/ \E opts \in NotFoundBatchOptions : NewBatchNotFound(opts) \/ NewAlreadyExistsBatch(opts)

QuotaConstructors ==
    \/ \E opts \in QuotaFailureOptions : NewQuotaFailure(opts)
    \/ \E opts \in QuotaFailureBatchOptions : NewQuotaFailureBatch(opts)

PlainConstructors ==
    \E logLevel \in LogLevels : NewCanceledError(logLevel) \/ NewNotImplemented(logLevel)

HiddenConstructors ==
    \E opts \in SimpleOptions :
        \/ NewServerDataLoss(opts)
        \/ NewUnknown(opts)
        \/ NewInternalError(opts)
        \/ NewUnavailable(opts)
        \/ NewDeadlineExceeded(opts)

\* A method call on the error under study.
CallMethod(op, arguments, result) ==
    /\ ~panicked
    /\ err # Nil
    /\ nCalls < MaxCalls
    /\ nCalls' = nCalls + 1
    /\ lastOp' = [name |-> op, args |-> arguments]
    /\ IF IsPanic(result)
       THEN panicked' = TRUE /\ err' = result.xerr /\ out' = [panic |-> result.panic]
       ELSE panicked' = FALSE /\ err' = result /\ out' = Nil
    /\ UNCHANGED <<domain, tasks, mutex>>

CallAddBadRequestViolations(violations) ==
    CallMethod("AddBadRequestViolations", <<violations>>, AddBadRequestViolations(err, violations))
CallAddPreconditionViolations(violations) ==
    CallMethod("AddPreconditionViolations", <<violations>>, AddPreconditionViolations(err, violations))
CallAddQuotaViolations(violations) ==
    CallMethod("AddQuotaViolations", <<violations>>, AddQuotaViolations(err, violations))
CallAddResourceInfos(infos) ==
    CallMethod("AddResourceInfos", <<infos>>, AddResourceInfos(err, infos))
CallSetErrorInfo(d, reason, metadata) ==
    CallMethod("SetErrorInfo", <<d, reason, metadata>>, SetErrorInfo(err, domain, d, reason, metadata))
CallSetDebugInfo(detail, stackEntries) ==
    CallMethod("SetDebugInfo", <<detail, stackEntries>>, SetDebugInfo(err, detail, stackEntries))
CallHideDetails ==
    CallMethod("HideDetails", <<>>, HideDetails(err))
CallSetLogLevel(level) ==
    CallMethod("SetLogLevel", <<level>>, SetLogLevel(err, level))
CallAddVar(name, value) ==
    /\ err # Nil
    /\ Len(err.runtimeState) < MaxVars
    /\ CallMethod("AddVar", <<name, value>>, AddVar(err, name, value))
CallRemoveSensitiveDetails ==
    CallMethod("RemoveSensitiveDetails", <<>>, RemoveSensitiveDetails(err))

\* Severities handed to SetLogLevel.
NewLevels == {LogLevelDebug, LogLevelWarn}
VarNames == {"", "requested_id"}
VarValues == {Nil, AnyInt(7)}

DetailMutators ==
    \/ \E v \in ViolationLists(BadRequestViolations) : CallAddBadRequestViolations(v)
    \/ \E v \in ViolationLists(PreconditionViolations) : CallAddPreconditionViolations(v)
    \/ \E v \in ViolationLists(QuotaViolations) : CallAddQuotaViolations(v)
    \/ \E infos \in ViolationLists(ResourceInfos) : CallAddResourceInfos(infos)
    \/ \E d \in ArgDomains, reason \in Reasons, metadata \in Metadatas : CallSetErrorInfo(d, reason, metadata)
    \/ \E detail \in DebugDetails, stackEntries \in StackEntryLists : CallSetDebugInfo(detail, stackEntries)

OtherMethods ==
    \/ CallHideDetails
    \/ \E level \in NewLevels : CallSetLogLevel(level)
    \/ \E name \in VarNames, value \in VarValues : CallAddVar(name, value)
    \/ CallRemoveSensitiveDetails

\* The gRPC server runs the interceptor around a handler.
Intercept(resp, handlerErr) ==
    /\ ~panicked
    /\ handlerErr = theXError => err # Nil
    /\ LET r == UnaryXErrorInterceptor(err, resp, handlerErr)
       IN  /\ out' = [resp |-> r.resp, err |-> r.err]
           /\ err' = r.xerr
    /\ lastOp' = [name |-> "UnaryXErrorInterceptor",
                  args |-> <<resp, IF handlerErr = theXError THEN err ELSE handlerErr>>]
    /\ UNCHANGED <<domain, nCalls, panicked, tasks, mutex>>

\* An HTTP handler responds with RespondFailed(w, e).
Respond(e) ==
    /\ ~panicked
    /\ e = theXError => err # Nil
    /\ LET r == RespondFailed(err, e)
       IN  /\ out' = r.resp
           /\ err' = r.xerr
    /\ lastOp' = [name |-> "RespondFailed", args |-> <<IF e = theXError THEN err ELSE e>>]
    /\ UNCHANGED <<domain, nCalls, panicked, tasks, mutex>>

\* The (resp, err) pairs a handler returns.
HandlerResults ==
    {[resp |-> [value |-> "whatever"], err |-> Nil],
     [resp |-> Nil, err |-> plainError],
     [resp |-> Nil, err |-> theXError]}

Boundary ==
    \/ \E h \in HandlerResults : Intercept(h.resp, h.err)
    \/ \E e \in {plainError, theXError} : Respond(e)

\* One caller-supplied option value per kind of constructor, for the runs
\* that follow an error through its method calls.
OneOf(S) == {CHOOSE x \in S : TRUE}

UsualOptions(S) == OneOf({opts \in S : opts.LogLevel = LogLevelUnspecified})

UsualCauseOptions(S) ==
    OneOf({opts \in S : opts.LogLevel = LogLevelUnspecified /\ opts.Error # Nil})

SomeConstructors ==
    \/ \E opts \in UsualOptions(BadRequestOptions) : NewInvalidArgument(opts)
    \/ \E opts \in UsualOptions(PreconditionFailureOptions) : NewPreconditionFailure(opts)
    \/ \E opts \in UsualOptions(NotFoundOptions) : NewNotFound(opts)
    \/ \E opts \in UsualCauseOptions(QuotaFailureOptions) : NewQuotaFailure(opts)
    \/ \E opts \in UsualCauseOptions({o \in ErrorInfoOptions : o.Reason # ""}) : NewAborted(opts)
    \/ NewCanceledError(LogLevelUnspecified)
    \/ \E opts \in UsualCauseOptions({o \in SimpleOptions : o.Error \in CauseErrors}) : NewInternalError(opts)

\* The constructors whose errors the detail mutators are followed on: one
\* with a BadRequest group, one with a ResourceInfo detail, one with an
\* ErrorInfo group, one without details.
DetailConstructors ==
    \/ \E opts \in UsualOptions(BadRequestOptions) : NewInvalidArgument(opts)
    \/ \E opts \in UsualOptions(NotFoundOptions) : NewNotFound(opts)
    \/ \E opts \in UsualCauseOptions({o \in ErrorInfoOptions : o.Reason # ""}) : NewAborted(opts)
    \/ NewCanceledError(LogLevelUnspecified)

AllConstructors ==
    \/ BadRequestConstructors
    \/ PreconditionConstructors
    \/ ErrorInfoConstructors
    \/ ResourceInfoConstructors
    \/ QuotaConstructors
    \/ PlainConstructors
    \/ HiddenConstructors

\* One argument value per detail mutator, for the runs that deliver errors
\* at a boundary.
SomeMutators ==
    \/ \E v \in OneOf(BadRequestViolations) : CallAddBadRequestViolations(<<v>>)
    \/ \E v \in OneOf(PreconditionViolations) : CallAddPreconditionViolations(<<v>>)
    \/ \E v \in OneOf(QuotaViolations) : CallAddQuotaViolations(<<v>>)
    \/ \E info \in OneOf(ResourceInfos) : CallAddResourceInfos(<<info>>)
    \/ \E d \in OneOf(ArgDomains \ {""}), reason \in OneOf(Reasons \ {""}),
          metadata \in OneOf(Metadatas \ {{}}) : CallSetErrorInfo(d, reason, metadata)
    \/ \E detail \in OneOf(DebugDetails \ {""}), stackEntries \in StackEntryLists :
          CallSetDebugInfo(detail, stackEntries)

\* The details of one error: construction, then calls of the detail mutators.
Next ==
    \/ DetailConstructors
    \/ DetailMutators

Spec == Init /\ [][Next]_vars

\* One error from construction to its delivery at a boundary.
NextBoundary ==
    \/ SomeConstructors
    \/ SomeMutators
    \/ OtherMethods
    \/ Boundary

SpecBoundary == Init /\ [][NextBoundary]_vars

\* Every constructor with every option value, delivered at a boundary.
NextCtor ==
    \/ \E d \in Domains : InitDomain(d)
    \/ AllConstructors
    \/ Boundary

SpecCtor == Init /\ [][NextCtor]_vars

\* The errors a client gets back from a call to another system: one rich
\* status per code that an error can carry, one of them with a detail, and
\* a plain error.
InboundStatuses ==
    {StatusNew(code, "upstream failed") : code \in Codes \ {"OK"}}
        \cup {WithDetails(StatusNew("NotFound", "upstream failed"),
                          ResourceInfoDetail(info)) : info \in OneOf(ResourceInfos)}

InboundErrors == {Nil, plainError} \cup {StatusErr(s) : s \in InboundStatuses}

\* xerr := xgrpc.ErrorFrom(err): the result becomes the error under study.
InboundErrorFrom(inbound) == Construct("ErrorFrom", inbound, ErrorFrom(inbound))

\* The client of the intercepted call converts the error it got back:
\* xerr := xgrpc.ErrorFrom(err). The step records the error ErrorFrom was
\* applied to and the handler's error it came from.
ClientErrorFrom ==
    /\ ~panicked
    /\ lastOp.name = "UnaryXErrorInterceptor"
    /\ out' = [xerr |-> ErrorFrom(out.err), resp |-> out.resp, err |-> out.err]
    /\ lastOp' = [name |-> "ClientErrorFrom", args |-> <<out.err, lastOp.args[2]>>]
    /\ UNCHANGED <<domain, err, nCalls, panicked, tasks, mutex>>

\* Names that no code has: the empty one, one of a single letter and one
\* without an upper-case letter; and "OK", which no error to respond with has.
OtherNames == {<<>>, <<"X">>, <<"o", "k">>, CodeString("OK")}

\* Status: upperSnakeCaseFrom(s), the function called on its own.
CallUpperSnakeCaseFrom(s) ==
    /\ ~panicked
    /\ out' = [result |-> upperSnakeCaseFrom(s)]
    /\ lastOp' = [name |-> "upperSnakeCaseFrom", args |-> <<s>>]
    /\ UNCHANGED <<domain, err, nCalls, panicked, tasks, mutex>>

\* An error converted from an inbound one, then handled like any other and
\* returned through the interceptor to a client that converts it again.
NextInbound ==
    \/ \E inbound \in InboundErrors : InboundErrorFrom(inbound)
    \/ SomeMutators
    \/ OtherMethods
    \/ \E e \in {theXError} : Respond(e)
    \/ \E h \in HandlerResults : Intercept(h.resp, h.err)
    \/ ClientErrorFrom
    \/ \E s \in OtherNames : CallUpperSnakeCaseFrom(s)

SpecInbound == Init /\ [][NextInbound]_vars

\* if xerr.IsDomainError(domain, reason) { ... }: a query, the error is
\* left alone.
QueryIsDomainError(d, reason) ==
    /\ ~panicked
    /\ err # Nil
    /\ out' = [result |-> IsDomainError(err, d, reason)]
    /\ lastOp' = [name |-> "IsDomainError", args |-> <<d, reason>>]
    /\ UNCHANGED <<domain, err, nCalls, panicked, tasks, mutex>>

\* The domains and reasons asked for: those in use, and the same in
\* another letter case.
QueryDomains == Domains \cup ArgDomains \cup {"ORDERS.EXAMPLE.COM"}
QueryReasons == Reasons \cup {"out_of_stock"}

\* Variables handed to AddVar and AddVars: two of the same name, one
\* without a name and one without a value.
VarEntries ==
    {[Name |-> "requested_id", Value |-> AnyInt(7)],
     [Name |-> "requested_id", Value |-> AnyStr("v")],
     [Name |-> "", Value |-> AnyInt(7)],
     [Name |-> "requested_id", Value |-> Nil]}

\* AddVar and AddVars as often as method calls are allowed.
CallAddVarEntry(v) == CallMethod("AddVar", <<v.Name, v.Value>>, AddVar(err, v.Name, v.Value))
CallAddVars(entries) == CallMethod("AddVars", <<entries>>, AddVars(err, entries))

\* The runtime state of one error.
NextVars ==
    \/ NewCanceledError(LogLevelUnspecified)
    \/ \E v \in VarEntries : CallAddVarEntry(v)
    \/ \E entries \in ViolationLists(VarEntries) : CallAddVars(entries)

SpecVars == Init /\ [][NextVars]_vars

\* e := new(xerror.Error): the zero value, whose status has code OK.
NewZeroError == Construct("new", Nil, ZeroError)

\* The same value with one text replaced by bytes that are not UTF-8.
Spoiled(S, field) == {[x EXCEPT ![field] = InvalidText] : x \in OneOf(S)}

\* Detail mutators called with payloads that can and that cannot be
\* marshalled, on an error whose status takes details and on one whose
\* status (code OK) takes none.
RejectedMutators ==
    \/ \E v \in OneOf(BadRequestViolations) \cup Spoiled(BadRequestViolations, "Description") :
          CallAddBadRequestViolations(<<v>>)
    \/ \E v \in OneOf(PreconditionViolations) \cup Spoiled(PreconditionViolations, "Subject") :
          CallAddPreconditionViolations(<<v>>)
    \/ \E v \in OneOf(QuotaViolations) \cup Spoiled(QuotaViolations, "Subject") :
          CallAddQuotaViolations(<<v>>)
    \/ \E infos \in ViolationLists(OneOf(ResourceInfos) \cup Spoiled(ResourceInfos, "ResourceName")) :
          CallAddResourceInfos(infos)
    \/ \E d \in ArgDomains \cup {InvalidText}, reason \in Reasons, metadata \in OneOf(Metadatas) :
          CallSetErrorInfo(d, reason, metadata)
    \/ \E detail \in OneOf(DebugDetails \ {""}) \cup {"", InvalidText}, stackEntries \in StackEntryLists :
          CallSetDebugInfo(detail, stackEntries)

NextReject ==
    \/ NewZeroError
    \/ NewCanceledError(LogLevelUnspecified)
    \/ RejectedMutators

SpecReject == Init /\ [][NextReject]_vars

\* The process-wide domain set at any time, and SetErrorInfo called on an
\* error without and on an error with an ErrorInfo group.
NextDomain ==
    \/ \E d \in Domains : InitDomain(d)
    \/ NewCanceledError(LogLevelUnspecified)
    \/ \E opts \in UsualCauseOptions({o \in ErrorInfoOptions : o.Reason # ""}) : NewAborted(opts)
    \/ \E d \in ArgDomains, reason \in Reasons, metadata \in Metadatas : CallSetErrorInfo(d, reason, metadata)
    \/ CallRemoveSensitiveDetails
    \/ \E d \in QueryDomains, reason \in QueryReasons : QueryIsDomainError(d, reason)

SpecDomain == Init /\ [][NextDomain]_vars

\* Two goroutines sharing one *Error, each calling
\* e.AddBadRequestViolations(violations) once.  The method is not atomic:
\* it reads e.status in findBadRequest, reads it again in WithDetails and
\* writes it in the assignment, and the goroutines' steps interleave.  The
\* racing accesses are to the one pointer word of status.Status, so a read
\* sees the value before or the value after a racing write.
NonEmptyViolationLists == ViolationLists(BadRequestViolations) \ {<<>>}

\* go func() { e.AddBadRequestViolations(v1) }() and the same with v2; with
\* locks, every call is wrapped in mu.Lock() and mu.Unlock() by its caller.
Spawn(locks, v1, v2) ==
    /\ ~panicked
    /\ err # Nil
    /\ \A t \in Tasks : tasks[t].pc = "idle"
    /\ tasks' = [t \in Tasks |->
                    [IdleTask EXCEPT !.pc = IF locks THEN "lock" ELSE "find",
                                     !.violations = IF t = 1 THEN v1 ELSE v2,
                                     !.locks = locks]]
    /\ lastOp' = [name |-> "go", args |-> <<locks, v1, v2>>]
    /\ UNCHANGED <<domain, err, nCalls, out, panicked, mutex>>

\* mu.Lock()
Lock(t) ==
    /\ ~panicked
    /\ tasks[t].pc = "lock"
    /\ mutex = 0
    /\ mutex' = t
    /\ tasks' = [tasks EXCEPT ![t].pc = "find"]
    /\ lastOp' = [name |-> "Lock", args |-> <<t>>]
    /\ UNCHANGED <<domain, err, nCalls, out, panicked>>

\* existing, err := e.findBadRequest()
Find(t) ==
    /\ ~panicked
    /\ tasks[t].pc = "find"
    /\ LET existing == findBadRequest(err)
       IN  tasks' = [tasks EXCEPT ![t].existing = existing,
                                  ![t].pc = IF existing = errNotFound THEN "attach" ELSE "append"]
    /\ lastOp' = [name |-> "findBadRequest", args |-> <<t>>]
    /\ UNCHANGED <<domain, err, nCalls, out, panicked, mutex>>

\* status, err := e.status.WithDetails(&detail), and the panic on its error
Attach(t) ==
    /\ ~panicked
    /\ tasks[t].pc = "attach"
    /\ LET detail == BadRequest(tasks[t].violations)
       IN  IF WithDetailsFails(err.status, detail)
           THEN /\ panicked' = TRUE
                /\ out' = [panic |-> PanicFailedToAddErrorDetails(err).panic]
                /\ UNCHANGED tasks
           ELSE /\ tasks' = [tasks EXCEPT ![t].status = WithDetails(err.status, detail),
                                          ![t].pc = "assign"]
                /\ UNCHANGED <<out, panicked>>
    /\ lastOp' = [name |-> "WithDetails", args |-> <<t>>]
    /\ UNCHANGED <<domain, err, nCalls, mutex>>

\* Where a goroutine is after its call returned.
Returned(t) == IF tasks[t].locks THEN "unlock" ELSE "done"

\* e.status = *status; return
Assign(t) ==
    /\ ~panicked
    /\ tasks[t].pc = "assign"
    /\ err' = [err EXCEPT !.status = tasks[t].status]
    /\ nCalls' = nCalls + 1
    /\ tasks' = [tasks EXCEPT ![t].pc = Returned(t)]
    /\ lastOp' = [name |-> "assign", args |-> <<t>>]
    /\ UNCHANGED <<domain, out, panicked, mutex>>

\* existing.FieldViolations = append(existing.FieldViolations, violationspb...)
AppendToExisting(t) ==
    /\ ~panicked
    /\ tasks[t].pc = "append"
    /\ LET violationspb == BadRequest(tasks[t].violations).FieldViolations
           existing == tasks[t].existing
       IN  err' = [err EXCEPT !.status = WriteBack(@, existing,
                        [Details(@)[existing] EXCEPT !.FieldViolations = @ \o violationspb])]
    /\ nCalls' = nCalls + 1
    /\ tasks' = [tasks EXCEPT ![t].pc = Returned(t)]
    /\ lastOp' = [name |-> "append", args |-> <<t>>]
    /\ UNCHANGED <<domain, out, panicked, mutex>>

\* mu.Unlock()
Unlock(t) ==
    /\ ~panicked
    /\ tasks[t].pc = "unlock"
    /\ mutex = t
    /\ mutex' = 0
    /\ tasks' = [tasks EXCEPT ![t].pc = "done"]
    /\ lastOp' = [name |-> "Unlock", args |-> <<t>>]
    /\ UNCHANGED <<domain, err, nCalls, out, panicked>>

\* One error without a BadRequest group, shared by two goroutines.
NextTasks ==
    \/ NewCanceledError(LogLevelUnspecified)
    \/ \E locks \in BOOLEAN : \E v1, v2 \in NonEmptyViolationLists : Spawn(locks, v1, v2)
    \/ \E t \in Tasks : Lock(t)
    \/ \E t \in Tasks : Find(t)
    \/ \E t \in Tasks : Attach(t)
    \/ \E t \in Tasks : Assign(t)
    \/ \E t \in Tasks : AppendToExisting(t)
    \/ \E t \in Tasks : Unlock(t)

SpecTasks == Init /\ [][NextTasks]_vars

\* ================================================================== claims
\* Positions of the details of one kind, and the first detail of a kind.
KindIndexes(e, kind) == {i \in 1..Len(e.status.details) : e.status.details[i].kind = kind}

GroupOf(e, kind) ==
    e.status.details[CHOOSE i \in KindIndexes(e, kind) : \A j \in KindIndexes(e, kind) : i <= j]

\* The inner list of the group of a kind before a call, empty without a group.
FieldViolationsOf(e) ==
    IF KindIndexes(e, "BadRequest") = {} THEN <<>> ELSE GroupOf(e, "BadRequest").FieldViolations

ViolationsOf(e, kind) ==
    IF KindIndexes(e, kind) = {} THEN <<>> ELSE GroupOf(e, kind).Violations

\* C1: every call of AddBadRequestViolations, AddPreconditionViolations and
\* AddQuotaViolations leaves exactly one group of its kind, and that group's
\* inner list is the list it held before the call followed by the call's
\* violations: over a sequence of calls, the concatenation of all arguments.
C1_ViolationsAccumulate ==
    [][/\ \A v \in ViolationLists(BadRequestViolations) :
            CallAddBadRequestViolations(v) =>
                /\ Cardinality(KindIndexes(err', "BadRequest")) = 1
                /\ FieldViolationsOf(err') = FieldViolationsOf(err) \o BadRequest(v).FieldViolations
       /\ \A v \in ViolationLists(PreconditionViolations) :
            CallAddPreconditionViolations(v) =>
                /\ Cardinality(KindIndexes(err', "PreconditionFailure")) = 1
                /\ ViolationsOf(err', "PreconditionFailure")
                     = ViolationsOf(err, "PreconditionFailure") \o PreconditionFailure(v).Violations
       /\ \A v \in ViolationLists(QuotaViolations) :
            CallAddQuotaViolations(v) =>
                /\ Cardinality(KindIndexes(err', "QuotaFailure")) = 1
                /\ ViolationsOf(err', "QuotaFailure")
                     = ViolationsOf(err, "QuotaFailure") \o QuotaFailure(v).Violations
      ]_vars

C4_LastErrorInfoWins ==
    (lastOp.name = "SetErrorInfo" /\ lastOp.args[2] # "" /\ lastOp.args[1] # "") =>
        /\ Cardinality(KindIndexes(err, "ErrorInfo")) = 1
        /\ GroupOf(err, "ErrorInfo").Domain = lastOp.args[1]
        /\ GroupOf(err, "ErrorInfo").Reason = lastOp.args[2]
        /\ {kv.key : kv \in GroupOf(err, "ErrorInfo").Metadata} = {kv.key : kv \in lastOp.args[3]}

\* C5 as stated: newOutOfRangeError and newOutOfRangeErrors yield an error
\* with code OutOfRange, the out-of-range message, and one detail: a
\* BadRequest group holding exactly the supplied violations.
C5_OutOfRangeCode ==
    lastOp.name \in {"newOutOfRangeError", "newOutOfRangeErrors"} =>
        /\ err.status.code = "OutOfRange"
        /\ err.status.message = msgOutOfRange
        /\ err.status.details
             = << BadRequest(IF lastOp.name = "newOutOfRangeError"
                             THEN <<lastOp.args[1].Violation>>
                             ELSE lastOp.args[1].Violations) >>

HiddenConstructorNames ==
    {"newServerDataLoss", "newUnknown", "newInternalError", "newUnavailable",
     "newDeadlineExceeded"}

VisibleConstructorNames ==
    {"newInvalidArgument", "newInvalidArgumentErrors", "newOutOfRangeError",
     "newOutOfRangeErrors", "newPreconditionFailure", "newPreconditionFailures",
     "newAborted", "newAlreadyExists", "newAlreadyExistsBatch", "newResourceExhausted",
     "newQuotaFailure", "newQuotaFailureBatch", "newUnauthenticatedError",
     "newPermissionDeniedError", "newNotFound", "newBatchNotFound",
     "newRequestDataLoss", "newCanceledError", "newNotImplemented"}

\* C6: right after construction the hidden flag of the error is set exactly
\* when it was built by newServerDataLoss, newUnknown, newInternalError,
\* newUnavailable or newDeadlineExceeded; every other constructor leaves it
\* unset.
C6_HiddenAtConstruction ==
    /\ lastOp.name \in HiddenConstructorNames /\ err # Nil => err.detailsHidden
    /\ lastOp.name \in VisibleConstructorNames /\ err # Nil => ~err.detailsHidden

\* newUnavailable has just returned an error, and its flag is set.
C6_Witness ==
    /\ lastOp.name = "newUnavailable"
    /\ err # Nil
    /\ err.detailsHidden
    /\ err.status.code = "Unavailable"

\* The details that are neither ErrorInfo nor DebugInfo, in their order.
KeptDetails(details) ==
    SelectSeq(details, LAMBDA d : d.kind \in {"BadRequest", "PreconditionFailure",
                                              "QuotaFailure", "ResourceInfo"})

HasKind(e, kind) == KindIndexes(e, kind) # {}

\* C7: when the handler returns the structured error, the status the
\* interceptor returns carries the error's code and message; its details are
\* the error's details without the ErrorInfo and DebugInfo ones if the hidden
\* flag is set, and all of the error's details unchanged if it is not.
C7_InterceptorRedaction ==
    [][\A h \in HandlerResults :
            (h.err = theXError /\ Intercept(h.resp, h.err)) =>
                /\ out'.err.code = err.status.code
                /\ out'.err.message = err.status.message
                /\ out'.err.details = IF err.detailsHidden
                                      THEN KeptDetails(err.status.details)
                                      ELSE err.status.details
      ]_vars

\* The interceptor has returned the status of a hidden error that held an
\* ErrorInfo or DebugInfo detail next to another detail: only the other one
\* is in the returned status.
C7_Witness ==
    /\ lastOp.name = "UnaryXErrorInterceptor"
    /\ lastOp.args[2] \notin {Nil, plainError}
    /\ lastOp.args[2].detailsHidden
    /\ HasKind(lastOp.args[2], "ErrorInfo") \/ HasKind(lastOp.args[2], "DebugInfo")
    /\ Len(lastOp.args[2].status.details) = 2
    /\ Len(out.err.details) = 1

\* An entry of the body's details list renders the detail d unchanged.
RendersDetail(entry, d) ==
    /\ entry.type = TypeURL(d.kind)
    /\ CASE d.kind = "ErrorInfo" ->
                /\ entry.domain = d.Domain
                /\ entry.reason = d.Reason
                /\ entry.metadata = d.Metadata
         [] d.kind = "DebugInfo" ->
                /\ entry.detail = d.Detail
                /\ entry.stackEntries = d.StackEntries
         [] OTHER -> TRUE

BodyDetails(response) ==
    IF "details" \in DOMAIN response.body.error THEN response.body.error.details ELSE <<>>

C9_RemovesOnlySensitive ==
    [][CallRemoveSensitiveDetails =>
            /\ ~HasKind(err', "ErrorInfo") /\ ~HasKind(err', "DebugInfo")
            /\ err'.status.details = KeptDetails(err.status.details)
            /\ err'.status.code = err.status.code
            /\ err'.status.message = err.status.message
            /\ err'.logLevel = err.logLevel
            /\ err'.runtimeState = err.runtimeState
            /\ err'.detailsHidden = err.detailsHidden
            /\ RemoveSensitiveDetails(err') = err'
      ]_vars

\* RemoveSensitiveDetails has run on an error built by newAborted, whose
\* ErrorInfo group is gone while the BadRequest group added later is there.
C9_Witness ==
    /\ lastOp.name = "RemoveSensitiveDetails"
    /\ err.status.code = "Aborted"
    /\ Len(err.status.details) = 1
    /\ HasKind(err, "BadRequest")

\* Runtime states an error can hold.
RuntimeStates ==
    SeqsUpTo({[Name |-> name, Value |-> value] :
                name \in VarNames \ {""}, value \in VarValues \ {Nil}}, MaxVars)

\* The errors that agree with e on code, message, details and hidden flag.
SameButLoggingData(e) ==
    {[e EXCEPT !.runtimeState = rs, !.logLevel = level] :
        rs \in RuntimeStates, level \in LogLevels}

\* C10: what RespondFailed writes for an error (HTTP status and body) and
\* the status UnaryXErrorInterceptor returns for it are what they write and
\* return for every error that differs from it in runtime state and severity
\* only.
C10_LoggingDataStaysInside ==
    [][/\ Respond(theXError) =>
            \A other \in SameButLoggingData(err) :
                RespondFailed(other, theXError).resp = out'
       /\ \A h \in HandlerResults :
            (h.err = theXError /\ Intercept(h.resp, h.err)) =>
                \A other \in SameButLoggingData(err) :
                    UnaryXErrorInterceptor(other, h.resp, h.err).err = out'.err
      ]_vars

\* RespondFailed has answered for an error that carries runtime state and a
\* severity set by SetLogLevel.
C10_Witness ==
    /\ lastOp.name = "RespondFailed"
    /\ lastOp.args[1] # plainError
    /\ lastOp.args[1].runtimeState # <<>>
    /\ lastOp.args[1].logLevel = LogLevelDebug
    /\ out.code = HTTPStatusFromCode(lastOp.args[1].status.code)

\* The error with the same code as e and nothing else: no message, no
\* details, no severity, no hidden flag, no runtime state.
BareError(e) == NewError(StatusNew(StatusCode(e), ""), LogLevelUnspecified, FALSE)

\* C11: for an error of any of the sixteen codes, IsDirectlyRetryable is
\* true exactly when the code is UNAVAILABLE and IsRetryableAtHigherLevel
\* exactly when the code is RESOURCE_EXHAUSTED or ABORTED; the two are never
\* both true, and both give the answer they give for the bare error of the
\* same code, whatever the details, severity, hidden flag and runtime state.
C11_RetryPredicates ==
    err # Nil =>
        /\ StatusCode(err) \in Codes \ {"OK"}
        /\ IsDirectlyRetryable(err) <=> (StatusCode(err) = "Unavailable")
        /\ IsRetryableAtHigherLevel(err) <=> (StatusCode(err) \in {"ResourceExhausted", "Aborted"})
        /\ ~(IsDirectlyRetryable(err) /\ IsRetryableAtHigherLevel(err))
        /\ IsDirectlyRetryable(err) = IsDirectlyRetryable(BareError(err))
        /\ IsRetryableAtHigherLevel(err) = IsRetryableAtHigherLevel(BareError(err))

\* An UNAVAILABLE error that has been given details and hidden.
C11_Witness ==
    /\ err # Nil
    /\ IsDirectlyRetryable(err)
    /\ ~IsRetryableAtHigherLevel(err)
    /\ IsDetailsHidden(err)
    /\ Len(err.status.details) > 0

\* C12 as stated: after SetErrorInfo with a non-empty reason, the domain of
\* the error's ErrorInfo group is the process-wide domain when the call's
\* domain is empty, and the call's domain otherwise.
C12_DomainDefaulting ==
    (lastOp.name = "SetErrorInfo" /\ lastOp.args[2] # "") =>
        /\ HasKind(err, "ErrorInfo")
        /\ GroupOf(err, "ErrorInfo").Domain =
               IF lastOp.args[1] = "" THEN domain ELSE lastOp.args[1]

\* C13: SetErrorInfo with an empty reason changes nothing, whatever the
\* domain and the metadata: details (an ErrorInfo group already present
\* included), code, message, severity and hidden flag stay as they were.
C13_EmptyReasonNoOp ==
    [][(/\ lastOp'.name = "SetErrorInfo"
        /\ lastOp'.args[2] = ""
        /\ CallSetErrorInfo(lastOp'.args[1], lastOp'.args[2], lastOp'.args[3]))
       => err' = err]_vars

\* SetErrorInfo was called with a domain, metadata and an empty reason on an
\* error without an ErrorInfo group, and the error still has none.
C13_Witness ==
    /\ lastOp.name = "SetErrorInfo"
    /\ lastOp.args[2] = ""
    /\ lastOp.args[1] # ""
    /\ lastOp.args[3] # {}
    /\ ~HasKind(err, "ErrorInfo")

\* C14 as stated: AddBadRequestViolations, AddPreconditionViolations and
\* AddQuotaViolations called with an empty list leave the error as it was:
\* no group is created and the number of details is unchanged.
C14_EmptyListNoOp ==
    [][(\/ CallAddBadRequestViolations(<<>>)
        \/ CallAddPreconditionViolations(<<>>)
        \/ CallAddQuotaViolations(<<>>))
       => /\ err' = err
          /\ Len(err'.status.details) = Len(err.status.details)]_vars

\* The severity a constructor's caller asked for.
AskedLevel == lastOp.args[1].LogLevel

\* C15: an error just built by newInvalidArgument, newInvalidArgumentErrors,
\* newOutOfRangeError or newOutOfRangeErrors has severity info when the
\* options leave the severity unspecified, and the options' severity
\* otherwise.
C15_BadRequestSeverity ==
    (/\ lastOp.name \in {"newInvalidArgument", "newInvalidArgumentErrors",
                         "newOutOfRangeError", "newOutOfRangeErrors"}
     /\ err # Nil)
    => err.logLevel = IF AskedLevel = LogLevelUnspecified THEN LogLevelInfo ELSE AskedLevel

\* newOutOfRangeError was called without a severity and returned an error
\* of severity info.
C15_Witness ==
    /\ lastOp.name = "newOutOfRangeError"
    /\ err # Nil
    /\ AskedLevel = LogLevelUnspecified
    /\ err.logLevel = LogLevelInfo

\* C16 as stated: an error just built by newPreconditionFailure,
\* newPreconditionFailures, newAborted or newResourceExhausted from options
\* that leave the severity unspecified has severity warn.
C16_WarnByDefault ==
    (/\ lastOp.name \in {"newPreconditionFailure", "newPreconditionFailures",
                         "newAborted", "newResourceExhausted"}
     /\ err # Nil
     /\ AskedLevel = LogLevelUnspecified)
    => err.logLevel = LogLevelWarn

\* C17 as stated: an error just built by a hidden-by-default constructor
\* from options that leave the severity unspecified has severity error for
\* newUnknown, newInternalError and newServerDataLoss, info for
\* newUnavailable and warn for newDeadlineExceeded.
C17_HiddenConstructorSeverity ==
    (/\ lastOp.name \in HiddenConstructorNames
     /\ err # Nil
     /\ AskedLevel = LogLevelUnspecified)
    => err.logLevel = CASE lastOp.name = "newUnavailable" -> LogLevelInfo
                        [] lastOp.name = "newDeadlineExceeded" -> LogLevelWarn
                        [] OTHER -> LogLevelError

\* C18: ErrorFrom of an inbound error that carries a rich status returns an
\* error with that status's code and message; of an inbound error that
\* carries none it returns an error with code Unknown and the inbound
\* error's own message; either way the result's log level is unspecified.
C18_ErrorFrom ==
    (lastOp.name = "ErrorFrom" /\ lastOp.args[1] # Nil) =>
        /\ err # Nil
        /\ lastOp.args[1].type = "status" =>
               /\ StatusCode(err) = lastOp.args[1].code
               /\ StatusMessage(err) = lastOp.args[1].message
        /\ lastOp.args[1].type = "plain" =>
               /\ StatusCode(err) = "Unknown"
               /\ StatusMessage(err) = lastOp.args[1].Error
        /\ err.logLevel = LogLevelUnspecified

\* ErrorFrom has just converted an inbound error that carries the status
\* OUT_OF_RANGE "upstream failed".
C18_Witness ==
    /\ lastOp.name = "ErrorFrom"
    /\ lastOp.args[1] = StatusErr(StatusNew("OutOfRange", "upstream failed"))
    /\ err # Nil
    /\ StatusCode(err) = "OutOfRange"
    /\ StatusMessage(err) = "upstream failed"

ClaimedHTTPStatus(code) ==
    CASE code \in {"InvalidArgument", "FailedPrecondition", "OutOfRange"} -> 400
      [] code = "Unauthenticated" -> 401
      [] code = "PermissionDenied" -> 403
      [] code = "NotFound" -> 404
      [] code \in {"Aborted", "AlreadyExists"} -> 409
      [] code = "ResourceExhausted" -> 429
      [] code = "Canceled" -> 499
      [] code \in {"DataLoss", "Unknown", "Internal"} -> 500
      [] code = "Unimplemented" -> 501
      [] code = "Unavailable" -> 503
      [] code = "DeadlineExceeded" -> 504

C21_NonXErrorResponse ==
    (lastOp.name = "RespondFailed" /\ lastOp.args[1] = plainError) =>
        /\ out.code = 500
        /\ "error" \notin DOMAIN out.body
        /\ DOMAIN out.body \cap {"code", "message", "status", "details"} = {}

\* RespondFailed was handed a plain error while a structured error exists,
\* and answered 500 with the fixed text.
C21_Witness ==
    /\ lastOp.name = "RespondFailed"
    /\ lastOp.args[1] = plainError
    /\ err # Nil
    /\ out.code = 500
    /\ out.body = [raw |-> "non-xerror received"]

\* C22: IsDomainError(domain, reason) answers true exactly when the error
\* has an ErrorInfo group whose domain is the given domain and whose reason
\* is the given reason, letter for letter; it answers false when only one of
\* the two matches and when there is no ErrorInfo group, for instance after
\* RemoveSensitiveDetails.
C22_IsDomainError ==
    lastOp.name = "IsDomainError" =>
        (out.result <=> /\ HasKind(err, "ErrorInfo")
                        /\ GroupOf(err, "ErrorInfo").Domain = lastOp.args[1]
                        /\ GroupOf(err, "ErrorInfo").Reason = lastOp.args[2])

\* IsDomainError answered false for the reason of the error's ErrorInfo
\* group asked under another domain.
C22_Witness ==
    /\ lastOp.name = "IsDomainError"
    /\ HasKind(err, "ErrorInfo")
    /\ GroupOf(err, "ErrorInfo").Reason = lastOp.args[2]
    /\ GroupOf(err, "ErrorInfo").Domain # lastOp.args[1]
    /\ out.result = FALSE

\* The entries AddVar accepts, in their order.
AcceptedVars(entries) == SelectSeq(entries, LAMBDA v : v.Name # "" /\ v.Value # Nil)

\* C23: AddVar with an empty name or a nil value leaves the runtime state
\* as it was; with a name and a value it appends exactly that entry at the
\* end, also when an entry of that name is there already; AddVars does the
\* same for each of its entries in order. Nothing else of the error changes.
C23_RuntimeStateAppends ==
    [][/\ (lastOp'.name = "AddVar" /\ nCalls' = nCalls + 1) =>
            err' = [err EXCEPT !.runtimeState =
                       @ \o AcceptedVars(<<[Name |-> lastOp'.args[1], Value |-> lastOp'.args[2]]>>)]
       /\ (lastOp'.name = "AddVars" /\ nCalls' = nCalls + 1) =>
            err' = [err EXCEPT !.runtimeState = @ \o AcceptedVars(lastOp'.args[1])]
      ]_vars

\* AddVar has appended a second entry named requested_id behind the first.
C23_Witness ==
    /\ lastOp.name = "AddVar"
    /\ err # Nil
    /\ Len(err.runtimeState) = 2
    /\ err.runtimeState[1].Name = err.runtimeState[2].Name
    /\ err.runtimeState[1].Value # err.runtimeState[2].Value
    /\ err.runtimeState[2] = [Name |-> lastOp.args[1], Value |-> lastOp.args[2]]

\* C24: no call of AddBadRequestViolations, AddPreconditionViolations,
\* AddQuotaViolations, AddResourceInfos, SetErrorInfo or SetDebugInfo
\* changes the code or the message the error was constructed with.
C24_CodeAndMessageKept ==
    [][(err # Nil /\ nCalls' = nCalls + 1) =>
            /\ StatusCode(err') = StatusCode(err)
            /\ StatusMessage(err') = StatusMessage(err)]_vars

\* Two detail mutators have replaced the status of an error built by
\* newNotFound, which still has its code and message.
C24_Witness ==
    /\ nCalls = 2
    /\ err # Nil
    /\ Len(err.status.details) = 3
    /\ StatusCode(err) = "NotFound"
    /\ StatusMessage(err) = msgNotFound

\* C25: the hidden flag only ever goes from false to true, and only by
\* HideDetails: a flag that is false stays false over every other step, and
\* a flag that is true (set by HideDetails or by the constructor) stays true
\* over every step, detail mutators, severity changes and redactions at the
\* boundaries included.
C25_HiddenFlagMonotone ==
    [][(err # Nil /\ err' # Nil) =>
            /\ IsDetailsHidden(err) => IsDetailsHidden(err')
            /\ (~IsDetailsHidden(err) /\ lastOp'.name # "HideDetails") => ~IsDetailsHidden(err')
      ]_vars

\* An error hidden by HideDetails has since been redacted at a boundary and
\* is still hidden.
C25_Witness ==
    /\ lastOp.name \in {"RespondFailed", "UnaryXErrorInterceptor"}
    /\ err # Nil
    /\ lastOp.args[1] # plainError
    /\ StatusCode(err) # "Internal"
    /\ nCalls = 2
    /\ IsDetailsHidden(err)

\* The payloads a call of a detail mutator hands to WithDetails, in order,
\* on the error e as it is before the call.
Attempts(e, op, args) ==
    CASE op = "AddBadRequestViolations" ->
            IF HasKind(e, "BadRequest") THEN <<>> ELSE <<BadRequest(args[1])>>
      [] op = "AddPreconditionViolations" ->
            IF HasKind(e, "PreconditionFailure") THEN <<>> ELSE <<PreconditionFailure(args[1])>>
      [] op = "AddQuotaViolations" ->
            IF HasKind(e, "QuotaFailure") THEN <<>> ELSE <<QuotaFailure(args[1])>>
      [] op = "AddResourceInfos" ->
            [i \in 1..Len(args[1]) |-> ResourceInfoDetail(args[1][i])]
      [] op = "SetErrorInfo" ->
            IF args[2] = "" \/ HasKind(e, "ErrorInfo") THEN <<>>
            ELSE <<ErrorInfo(IF args[1] = "" THEN domain ELSE args[1], args[2],
                             {[key |-> kv.key, val |-> Sprintf(kv.val)] : kv \in args[3]})>>
      [] op = "SetDebugInfo" ->
            IF args[1] = "" \/ HasKind(e, "DebugInfo") THEN <<>>
            ELSE <<DebugInfo(args[1], args[2])>>

\* The attempts the status rejects.
RejectedAttempts(e, attempts) ==
    {i \in 1..Len(attempts) : StatusCode(e) = "OK" \/ ~Marshals(attempts[i])}

\* C26: when WithDetails rejects a payload, the detail mutator that handed
\* it over halts with a panic whose value wraps ErrFailedToAddErrorDetails:
\* it does not return, and the error keeps the status it had when the
\* rejected payload was handed over (the details accepted before it, and
\* nothing of the rejected one). A call none of whose payloads is rejected
\* returns.
C26_RejectedDetailPanics ==
    [][(err # Nil /\ nCalls' = nCalls + 1) =>
        LET attempts == Attempts(err, lastOp'.name, lastOp'.args)
            rejected == RejectedAttempts(err, attempts)
        IN  IF rejected = {}
            THEN ~panicked'
            ELSE LET first == CHOOSE i \in rejected : \A j \in rejected : i <= j
                 IN  /\ panicked'
                     /\ out'.panic.wraps = ErrFailedToAddErrorDetails
                     /\ err' = [err EXCEPT !.status.details = @ \o SubSeq(attempts, 1, first - 1)]
      ]_vars

\* AddResourceInfos has panicked on its second info, which cannot be
\* marshalled, after the first one was attached.
C26_Witness ==
    /\ panicked
    /\ lastOp.name = "AddResourceInfos"
    /\ Len(lastOp.args[1]) = 2
    /\ Marshals(ResourceInfoDetail(lastOp.args[1][1]))
    /\ ~Marshals(ResourceInfoDetail(lastOp.args[1][2]))
    /\ err.status.details = <<ResourceInfoDetail(lastOp.args[1][1])>>
    /\ out.panic.wraps = ErrFailedToAddErrorDetails

AskedOf(t) == BadRequest(tasks[t].violations).FieldViolations

\* The error holds one BadRequest group with both goroutines' violations.
OneGroupWithBoth ==
    /\ Cardinality(KindIndexes(err, "BadRequest")) = 1
    /\ FieldViolationsOf(err) \in {AskedOf(1) \o AskedOf(2), AskedOf(2) \o AskedOf(1)}

AllDone == \A t \in Tasks : tasks[t].pc = "done"

\* C28: when the two goroutines' calls of AddBadRequestViolations on the
\* same error are serialized by a lock, every execution ends with one
\* BadRequest group that contains both goroutines' violations.
C28_SerializedCallsKeepBoth ==
    (AllDone /\ \A t \in Tasks : tasks[t].locks) => OneGroupWithBoth

\* C28, its other half: without a lock both goroutines can find no group,
\* both build a status from the one they read, and the later assignment
\* overwrites the earlier one.
C28_UnsynchronizedOverwrite ==
    /\ AllDone
    /\ \A t \in Tasks : ~tasks[t].locks /\ tasks[t].existing = errNotFound
    /\ Cardinality(KindIndexes(err, "BadRequest")) = 1
    /\ FieldViolationsOf(err) = AskedOf(2)
    /\ AskedOf(1) # AskedOf(2)


\* The place of the i-th character of a name in its UPPER_SNAKE_CASE form:
\* behind one underscore for every upper-case letter up to it, the first
\* character of the name excepted.
PlaceOf(s, i) == i + Cardinality({j \in 2..i : IsUpper(s[j])})

\* The UPPER_SNAKE_CASE form as the claim describes it.
ClaimedUpperSnakeCase(s) ==
    LET n == IF Len(s) = 0 THEN 0 ELSE PlaceOf(s, Len(s))
    IN  [p \in 1..n |->
            IF \E i \in 1..Len(s) : PlaceOf(s, i) = p
            THEN ToUpper(s[CHOOSE i \in 1..Len(s) : PlaceOf(s, i) = p])
            ELSE "_"]

Humps(s) == Cardinality({i \in 1..Len(s) : IsUpper(s[i])})

Underscores(str) == Cardinality({i \in 1..Len(str) : str[i] = "_"})

\* What the claim says of the result `str` for the name `s`.
AsClaimed(s, str) ==
    /\ str = ClaimedUpperSnakeCase(s)
    /\ Underscores(str) = IF Humps(s) = 0 THEN 0 ELSE Humps(s) - 1

\* C29: the "status" field of the body RespondFailed writes for an error is
\* upperSnakeCaseFrom of the code's name: every character upper-cased, one
\* underscore before each upper-case letter that is not the first character,
\* so k humps give k-1 underscores and an empty or hump-free name gives none.
C29_StatusField ==
    /\ (lastOp.name = "RespondFailed" /\ lastOp.args[1] # plainError) =>
            AsClaimed(CodeString(StatusCode(lastOp.args[1])), out.body.error.status)
    /\ lastOp.name = "upperSnakeCaseFrom" => AsClaimed(lastOp.args[1], out.result)

\* RespondFailed has written "NOT_FOUND" for a NOT_FOUND error.
C29_Witness ==
    /\ lastOp.name = "RespondFailed"
    /\ lastOp.args[1] # plainError
    /\ StatusCode(lastOp.args[1]) = "NotFound"
    /\ out.body.error.status = <<"N", "O", "T", "_", "F", "O", "U", "N", "D">>


\* The cause handed to the constructor that ran last.
AskedCause == lastOp.args[1].Error

\* C30: newServerDataLoss, newUnknown, newInternalError, newUnavailable and
\* newDeadlineExceeded return nil exactly when the cause in their options is
\* nil; from any other cause they return an error whose message is the
\* cause's message as it stands and which has no details.
C30_HiddenConstructorResult ==
    lastOp.name \in HiddenConstructorNames =>
        /\ err = Nil <=> AskedCause = Nil
        /\ err # Nil =>
            /\ StatusMessage(err) = AskedCause.Error
            /\ Len(err.status.details) = 0

\* newUnavailable has returned an error for a cause whose message is empty.
C30_Witness ==
    /\ lastOp.name = "newUnavailable"
    /\ AskedCause = errorsNew("")
    /\ err # Nil
    /\ StatusMessage(err) = ""

====
